---- MODULE Spec2Model ----
(***************************************************************************)
(* Model of the coordinator registry of the GPU-inference broker           *)
(* (rust/src/server/registry.rs) together with the coordinator handlers    *)
(* that call it (rust/src/server/mod.rs) and the payloads the worker       *)
(* agent builds for them (rust/src/client/manager.rs).                     *)
(*                                                                         *)
(* Time is in milliseconds.  GPU memory is the number nvidia-smi prints    *)
(* with --format=csv,nounits, i.e. MiB.                                    *)
(***************************************************************************)
EXTENDS Integers, Sequences, FiniteSets, TLC

VARIABLES
    clients,      \* ClientRegistry.clients : HashMap<Uuid, GPUClient>
    now,          \* the value Utc::now() returns, in ms
    gpu_probe,    \* what get_gpu_memory_info() reports on each worker host
    op,           \* the call that was served last: [name, arg, body]
    ret,          \* what that call returned and logged
    reqs,         \* the POST /predict requests of the coordinator
    failed,       \* workers whose last accepted write was a failure write
    calls,        \* the registry method each server thread is executing
    agent,        \* a worker agent process: GPUClientManager and its tasks
    preds         \* the agent's /predict handler invocations

vars == <<clients, now, gpu_probe, op, ret, reqs, failed, calls, agent, preds>>

----------------------------------------------------------------------------
(* Bounds and input sets *)

\* number of instants of Timeline at which calls are served
NumInstants == 3

\* the instants (ms) at which calls are served, the first NumInstants of
\* them; they put heartbeat ages on both sides of the 30 s window (29999,
\* 30000) and of the 3 s window (1, 29999), then exactly on it (2999, 3000)
Timeline == <<0, 1, 30000, 3000, 31000, 60001>>

Instants == {Timeline[k] : k \in 1..NumInstants}

WorkerIds == {"w1", "w2"}

Models == {"stable_diffusion", "covid_xray"}

Statuses == {"online", "busy", "error"}

\* Vec<String> values a worker reports as its loaded models
LoadedChoices == {<<>>, <<"stable_diffusion">>}

\* Option<T>: None is <<>>, Some(x) is <<x>>
None == <<>>

Some(x) == <<x>>

GPU(total, free) == [total_memory |-> total, free_memory |-> free]

\* what nvidia-smi reports on the two worker hosts (total MiB, free MiB);
\* None is a host on which it reports no GPU
Fleets ==
    { [w \in WorkerIds |-> IF w = "w1" THEN f[1] ELSE f[2]] : f \in
        { <<Some(GPU(4096, 4096)),  Some(GPU(12288, 1024))>>,
          <<Some(GPU(8192, 2048)),  Some(GPU(8192, 4096))>>,
          <<Some(GPU(8191, 4096)),  Some(GPU(8192, 2048))>>,
          <<None,                   Some(GPU(7, 7))>>,
          <<Some(GPU(8192, 4096)),  Some(GPU(8192, 4096))>> } }

IpOf(w) == IF w = "w1" THEN "10.0.0.1" ELSE "10.0.0.2"

PortOf(w) == IF w = "w1" THEN 8001 ELSE 8002

\* format!("{}:{}", self.ip_addr, self.port)
HostPortOf(w) == IF w = "w1" THEN "10.0.0.1:8001" ELSE "10.0.0.2:8002"

Contains(s, x) == \E i \in 1..Len(s) : s[i] = x

----------------------------------------------------------------------------
(* Program constants *)

\* ClientRegistry::new: heartbeat_timeout = Duration::from_secs(3)
HeartbeatTimeoutSecs == 3

\* find_best_client: chrono::Duration::seconds(30)
SelectWindowSecs == 30

\* find_best_client: "stable_diffusion" => total_memory >= 8.0
SdMinMemory == 8

----------------------------------------------------------------------------
(* Payloads built by the worker agent *)

\* the GPUInfo the agent sends when the probe returns None
CpuInfo == GPU(0, 0)

\* unwrap_or_else(|| GPUInfo { device_name: "CPU", total_memory: 0.0, .. })
ProbedInfo(probe) == IF probe = None THEN CpuInfo ELSE probe[1]

\* GPUClientManager::register
RegisterPayload(w, loaded, t, probe) ==
    [ client_id      |-> w,
      ip_address     |-> IpOf(w),
      port           |-> PortOf(w),
      gpu_info       |-> ProbedInfo(probe),
      loaded_models  |-> loaded,
      last_heartbeat |-> t,
      status         |-> "online",
      capabilities   |-> [models |-> loaded, gpu_available |-> probe # None] ]

\* GPUClientManager::send_heartbeat
HeartbeatPayload(w, loaded, status, ip, t, probe) ==
    [ client_id      |-> w,
      loaded_models  |-> loaded,
      status         |-> status,
      last_heartbeat |-> t,
      ip_address     |-> ip,
      capabilities   |-> [models |-> loaded,
                          gpu_available |-> ProbedInfo(probe).total_memory > 0],
      gpu_info       |-> ProbedInfo(probe) ]

----------------------------------------------------------------------------
(* ClientRegistry *)

\* the map without the keys outside keep
Restrict(cl, keep) == [id \in (DOMAIN cl) \cap keep |-> cl[id]]

\* HashMap::insert
Insert(cl, id, c) == [k \in (DOMAIN cl) \cup {id} |-> IF k = id THEN c ELSE cl[k]]

\* chrono Duration::num_seconds: whole seconds, truncated toward zero
NumSeconds(ms) == IF ms >= 0 THEN ms \div 1000 ELSE -((-ms) \div 1000)

\* register_client that keeps the record an id already has
RegisterClient_KeepExisting(cl, client) ==
    [ clients  |-> IF client.client_id \in DOMAIN cl THEN cl
                   ELSE Insert(cl, client.client_id, client),
      result   |-> "Ok",
      replaced |-> IF client.client_id \in DOMAIN cl
                   THEN Some(cl[client.client_id]) ELSE None ]

\* register_client that files the record under another worker's key
RegisterClient_Rekeyed(cl, client) ==
    LET key == CHOOSE k \in WorkerIds : k # client.client_id
    IN  [ clients  |-> Insert(cl, key, client),
          result   |-> "Ok",
          replaced |-> IF key \in DOMAIN cl THEN Some(cl[key]) ELSE None ]

\* ClientRegistry::register_client: the map afterwards, the Result, and the
\* Option<GPUClient> HashMap::insert hands back (the record it replaced)
RegisterClient(cl, client) ==
    [ clients  |-> Insert(cl, client.client_id, client),
      result   |-> "Ok",
      replaced |-> IF client.client_id \in DOMAIN cl
                   THEN Some(cl[client.client_id]) ELSE None ]

\* the assignments of update_client with ip_address taken from the payload
\* whether or not it carries one
ApplyUpdate_AlwaysIp(client, update) ==
    [ client EXCEPT
        !.loaded_models  = update.loaded_models,
        !.status         = update.status,
        !.last_heartbeat = update.last_heartbeat,
        !.capabilities   = update.capabilities,
        !.gpu_info       = update.gpu_info,
        !.ip_address     = IF update.ip_address # None
                           THEN update.ip_address[1] ELSE "" ]

\* update_client that keeps an error status until the next registration
ApplyUpdate_StickyError(client, update) ==
    [ client EXCEPT
        !.loaded_models  = update.loaded_models,
        !.status         = IF @ = "error" THEN @ ELSE update.status,
        !.last_heartbeat = update.last_heartbeat,
        !.capabilities   = update.capabilities,
        !.gpu_info       = update.gpu_info,
        !.ip_address     = IF update.ip_address # None
                           THEN update.ip_address[1] ELSE @ ]

\* the assignments of update_client to the record it found
ApplyUpdate(client, update) ==
    [ client EXCEPT
        !.loaded_models  = update.loaded_models,
        !.status         = update.status,
        !.last_heartbeat = update.last_heartbeat,
        !.capabilities   = update.capabilities,
        !.gpu_info       = update.gpu_info,
        !.ip_address     = IF update.ip_address # None
                           THEN update.ip_address[1] ELSE @ ]

\* update_client that inserts a record when the id is unknown
UpdateClient_Upsert(cl, update) ==
    IF update.client_id \in DOMAIN cl
    THEN [ clients |-> [cl EXCEPT ![update.client_id] = ApplyUpdate(@, update)],
           result  |-> "Ok" ]
    ELSE [ clients |-> Insert(cl, update.client_id,
                         [ client_id      |-> update.client_id,
                           ip_address     |-> "",
                           port           |-> 0,
                           gpu_info       |-> update.gpu_info,
                           loaded_models  |-> update.loaded_models,
                           last_heartbeat |-> update.last_heartbeat,
                           status         |-> update.status,
                           capabilities   |-> update.capabilities ]),
           result  |-> "ClientNotFound" ]

\* update_client that drops a record the heartbeat finds stale
UpdateClient_DropsStale(cl, update) ==
    IF update.client_id \notin DOMAIN cl
    THEN [ clients |-> cl, result |-> "ClientNotFound" ]
    ELSE IF update.last_heartbeat - cl[update.client_id].last_heartbeat
               >= SelectWindowSecs * 1000
    THEN [ clients |-> Restrict(cl, (DOMAIN cl) \ {update.client_id}),
           result  |-> "ClientNotFound" ]
    ELSE [ clients |-> [cl EXCEPT ![update.client_id] = ApplyUpdate(@, update)],
           result  |-> "Ok" ]

\* ClientRegistry::update_client: the map afterwards and the Result
UpdateClient(cl, update) ==
    IF update.client_id \in DOMAIN cl
    THEN [ clients |-> [cl EXCEPT ![update.client_id] = ApplyUpdate(@, update)],
           result  |-> "Ok" ]
    ELSE [ clients |-> cl, result |-> "ClientNotFound" ]

\* the retain closure with <= in place of <
IsActive_Inclusive(client, t) == t - client.last_heartbeat <= SelectWindowSecs * 1000

\* find_best_client, the retain closure:
\* now.signed_duration_since(last_heartbeat) < Duration::seconds(30)
IsActive(client, t) == t - client.last_heartbeat < SelectWindowSecs * 1000

\* find_best_client: the match on model_name
HasEnoughMemory(client, model_name) ==
    IF model_name = "stable_diffusion"
    THEN client.gpu_info.total_memory >= SdMinMemory
    ELSE TRUE

\* the filter closure without the can-load branch
Eligible_LoadedOnly(client, model_name) ==
    IF client.status # "online" THEN FALSE
    ELSE IF client.gpu_info.total_memory = 0 THEN FALSE
    ELSE Contains(client.loaded_models, model_name)

\* find_best_client: the filter closure
Eligible(client, model_name) ==
    IF client.status # "online" THEN FALSE
    ELSE IF client.gpu_info.total_memory = 0 THEN FALSE
    ELSE IF Contains(client.loaded_models, model_name) THEN TRUE
    ELSE HasEnoughMemory(client, model_name)

\* the comparator with the two keys swapped
SortsBefore_FreeFirst(a, b) ==
    \/ a.gpu_info.free_memory > b.gpu_info.free_memory
    \/ /\ a.gpu_info.free_memory = b.gpu_info.free_memory
       /\ a.gpu_info.total_memory > b.gpu_info.total_memory

\* find_best_client: the sort_by comparator says a sorts before b
SortsBefore(a, b) ==
    \/ a.gpu_info.total_memory > b.gpu_info.total_memory
    \/ /\ a.gpu_info.total_memory = b.gpu_info.total_memory
       /\ a.gpu_info.free_memory > b.gpu_info.free_memory

\* the records that can be first after the stable sort: HashMap::values
\* yields the candidates in an unspecified order, so any candidate that no
\* other one sorts before can be available_clients.first()
FirstCandidates(cands) == {a \in cands : \A b \in cands : ~SortsBefore(b, a)}

\* the speculative push without the contains test
MarkLoaded_AlwaysPush(client, model_name) ==
    [client EXCEPT !.loaded_models = Append(@, model_name)]

\* a selection that also marks the chosen record busy
MarkLoaded_Busy(client, model_name) ==
    [client EXCEPT !.status = "busy",
                   !.loaded_models = IF Contains(@, model_name) THEN @
                                     ELSE Append(@, model_name)]

\* find_best_client: the chosen record after the speculative push
MarkLoaded(client, model_name) ==
    IF Contains(client.loaded_models, model_name) THEN client
    ELSE [client EXCEPT !.loaded_models = Append(@, model_name)]

\* find_best_client: every outcome the call can have at time t
FindBestClient(cl, t, model_name) ==
    LET kept    == {id \in DOMAIN cl : IsActive(cl[id], t)}
        live    == Restrict(cl, kept)
        removed == (DOMAIN cl) \ kept
        cands   == {live[id] : id \in {k \in kept : Eligible(live[k], model_name)}}
    IN  IF cands = {}
        THEN { [clients |-> live, result |-> None, removed |-> removed] }
        ELSE { [ clients |-> [live EXCEPT ![c.client_id] = MarkLoaded(c, model_name)],
                 result  |-> Some(MarkLoaded(c, model_name)),
                 removed |-> removed ] : c \in FirstCandidates(cands) }

\* get_active_clients / cleanup_inactive_clients, the shared test:
\* (now - last_heartbeat).num_seconds() < heartbeat_timeout.as_secs()
WithinHeartbeatTimeout(client, t) ==
    NumSeconds(t - client.last_heartbeat) < HeartbeatTimeoutSecs

\* get_active_clients that drops the records it does not return
GetActiveClients_Evicting(cl, t) ==
    LET kept == {id \in DOMAIN cl : WithinHeartbeatTimeout(cl[id], t)}
    IN  [clients |-> Restrict(cl, kept), result |-> {cl[id] : id \in kept}]

\* ClientRegistry::get_active_clients: the map afterwards (it only takes
\* the read lock) and the returned records
GetActiveClients(cl, t) ==
    [ clients |-> cl,
      result  |-> {cl[id] : id \in {k \in DOMAIN cl : WithinHeartbeatTimeout(cl[k], t)}} ]

\* cleanup_inactive_clients with the retain test inverted
CleanupInactiveClients_Inverted(cl, t) ==
    LET kept == {id \in DOMAIN cl : ~WithinHeartbeatTimeout(cl[id], t)}
    IN  [clients |-> Restrict(cl, kept), removed |-> (DOMAIN cl) \ kept]

\* ClientRegistry::cleanup_inactive_clients: the map afterwards and the keys
\* the retain closure rejected
CleanupInactiveClients(cl, t) ==
    LET kept == {id \in DOMAIN cl : WithinHeartbeatTimeout(cl[id], t)}
    IN  [clients |-> Restrict(cl, kept), removed |-> (DOMAIN cl) \ kept]

----------------------------------------------------------------------------
(* Coordinator handlers and the calls they make on the registry *)

\* the POST /predict requests the coordinator serves
RequestIds == {"r1"}

\* a request slot before its request has arrived
NoRequest ==
    [ pc       |-> "idle",  \* idle, forwarding or done
      request  |-> None,    \* Option<PredictionRequest>: the body received
      client   |-> None,    \* Option<GPUClient>: the copy find_best_client returned
      upstream |-> None,    \* Option<ClientError> of send_prediction_request
      http     |-> 0,       \* HTTP status of the response
      message  |-> <<>>,    \* message of the PredictionError body
      selects  |-> 0,       \* find_best_client calls made for the request
      forwards |-> 0 ]      \* send_prediction_request calls that posted it

\* what a call leaves behind when it returns nothing of that kind
NoRet ==
    [ client  |-> None,   \* Option<GPUClient> returned by find_best_client
      removed |-> {},     \* keys a retain closure rejected
      replaced |-> None,  \* status and loaded_models of the record insert replaced
      list    |-> {},     \* Vec<GPUClient> returned by get_active_clients
      result  |-> "",     \* Result of register_client / update_client
      http    |-> 0,      \* HTTP status of the handler's response
      body    |-> [status |-> "", message |-> <<>>] ]

\* #[error("client not found")]
Display(err) == IF err = "ClientNotFound" THEN "client not found" ELSE err

\* ServerResponse; message is the sequence of pieces format! joins
ServerResponse(status, message) == [status |-> status, message |-> message]

\* mod.rs register_client: Json(ServerResponse), always Ok
RegisterResponse(result) ==
    IF result = "Ok"
    THEN ServerResponse("success", <<"Client registered successfully">>)
    ELSE ServerResponse("error", <<"Failed to register client: ", Display(result)>>)

\* mod.rs update_client: Json(ServerResponse) for both arms of the match
UpdateResponse(result) ==
    IF result = "Ok"
    THEN ServerResponse("success", <<"Client updated successfully">>)
    ELSE ServerResponse("error", <<"Failed to update client: ", Display(result)>>)

\* the call served last: its name, the id or model it names, and the
\* request body it carried (None when it has none)
Call(name, arg, body) == [name |-> name, arg |-> arg, body |-> body]

\* the server threads that run registry methods concurrently
ThreadIds == {"t1", "t2"}

\* what a registry method hands back to its caller
NoOut == [client |-> None, list |-> {}, result |-> ""]

\* a thread that is in no registry method
NoCall ==
    [ pc       |-> "idle",  \* idle, waiting, locked, retained or returning
      name     |-> "",      \* the method
      arg      |-> None,    \* its argument: a GPUClient, a HeartbeatUpdate, a model name
      snapshot |-> <<>>,    \* the map when the guard was taken
      at       |-> 0,       \* the Utc::now() the method read
      out      |-> NoOut ]  \* its return value

\* the worker whose agent process is followed step by step
Self == "w1"

\* the /predict invocations the agent's HTTP server runs concurrently
HandlerIds == {"h1", "h2"}

\* the agent process before start()
NewAgent ==
    [ main         |-> "new",    \* main: new, awaiting (server_handle.await) or exited
      exit         |-> None,     \* Option<i32>: the exit code of the process
      running      |-> FALSE,    \* running: AtomicBool
      stopped      |-> FALSE,    \* stop() has been called
      server       |-> "none",   \* server task: none, binding, listening or failed
      hb           |-> "none",   \* heartbeat thread: none, top, models, status,
                                 \* send, sleep or stopped
      hb_loaded    |-> <<>>,     \* send_heartbeat: loaded_models
      hb_status    |-> "online", \* send_heartbeat: current_status
      hb_late      |-> {},       \* the locks this send_heartbeat gave up waiting for
      reply        |-> "",       \* what the last heartbeat came back with
      status       |-> "online", \* status: Mutex<String>
      status_lock  |-> None,     \* Option: the handler holding the status guard
      mm_lock      |-> None,     \* Option: the handler holding the model_manager guard
      loaded       |-> {},       \* ModelManager.loaded_models.keys()
      initialized  |-> FALSE,    \* ModelManager.initialized
      known_loaded |-> <<>>,     \* loaded models read at the last acquisition
      known_status |-> "online" ] \* status read at the last acquisition

\* a /predict invocation that has not started
NoPrediction ==
    [ pc       |-> "idle",  \* idle, entered, stage, finish or finishing
      request  |-> None,    \* Option<PredictionRequest>
      stage    |-> "",      \* init, load, device or run
      holding  |-> FALSE,   \* the model_manager guard is held
      response |-> None ]   \* Option<PredictionResponse>: [success, error]

Init ==
    /\ clients = <<>>
    /\ now = Timeline[1]
    /\ gpu_probe \in Fleets
    /\ op = Call("new", "", None)
    /\ ret = NoRet
    /\ reqs = [r \in RequestIds |-> NoRequest]
    /\ failed = {}
    /\ calls = [t \in ThreadIds |-> NoCall]
    /\ agent = NewAgent
    /\ preds = [h \in HandlerIds |-> NoPrediction]

\* POST /register from worker w
Register(w, loaded) ==
    LET r == RegisterClient(clients,
                 RegisterPayload(w, loaded, now, gpu_probe[w]))
    IN  /\ clients' = r.clients
        /\ op' = Call("register", w,
                      Some(RegisterPayload(w, loaded, now, gpu_probe[w])))
        /\ ret' = [NoRet EXCEPT !.result = r.result, !.http = 200,
                                !.body = RegisterResponse(r.result),
                                !.replaced =
                                    IF r.replaced = None THEN None
                                    ELSE Some([status |-> r.replaced[1].status,
                                               loaded_models |-> r.replaced[1].loaded_models])]
        /\ failed' = failed \ {w}
        /\ UNCHANGED <<now, gpu_probe, reqs, calls, agent, preds>>

\* POST /heartbeat/{id} with body update
PostHeartbeat(update) ==
    LET r == UpdateClient(clients, update)
    IN  /\ clients' = r.clients
        /\ op' = Call("update", update.client_id, Some(update))
        /\ ret' = [NoRet EXCEPT !.result = r.result, !.http = 200,
                                !.body = UpdateResponse(r.result)]
        /\ failed' = IF r.result = "Ok" THEN failed \ {update.client_id}
                      ELSE failed
        /\ UNCHANGED <<now, gpu_probe, reqs, calls, agent, preds>>

\* POST /heartbeat/{id} from worker w
Heartbeat(w, loaded, status, ip) ==
    PostHeartbeat(HeartbeatPayload(w, loaded, status, ip, now, gpu_probe[w]))

\* Registry.select: the find_best_client call of POST /predict
Select(model_name) ==
    \E o \in FindBestClient(clients, now, model_name) :
        /\ clients' = o.clients
        /\ op' = Call("select", model_name, None)
        /\ ret' = [NoRet EXCEPT !.client = o.result, !.removed = o.removed]
        /\ UNCHANGED <<now, gpu_probe, reqs, failed, calls, agent, preds>>

\* GET /clients
ListClients ==
    LET r == GetActiveClients(clients, now)
    IN  /\ clients' = r.clients
        /\ op' = Call("list", "", None)
        /\ ret' = [NoRet EXCEPT !.list = r.result, !.http = 200]
        /\ UNCHANGED <<now, gpu_probe, reqs, failed, calls, agent, preds>>

\* Registry.scan: a cleanup_inactive_clients call
Scan ==
    LET r == CleanupInactiveClients(clients, now)
    IN  /\ clients' = r.clients
        /\ op' = Call("scan", "", None)
        /\ ret' = [NoRet EXCEPT !.removed = r.removed]
        /\ UNCHANGED <<now, gpu_probe, reqs, failed, calls, agent, preds>>

\* the clock reaches a later instant
Advance ==
    /\ \E t \in Instants : t > now /\ now' = t
    /\ op' = Call("advance", "", None)
    /\ ret' = NoRet
    /\ UNCHANGED <<clients, gpu_probe, reqs, failed, calls, agent, preds>>

Next ==
    \/ \E w \in WorkerIds, loaded \in LoadedChoices : Register(w, loaded)
    \/ \E w \in WorkerIds, loaded \in LoadedChoices, status \in Statuses :
          Heartbeat(w, loaded, status, Some(HostPortOf(w)))
    \/ \E m \in Models : Select(m)
    \/ ListClients
    \/ Scan
    \/ Advance

Spec == Init /\ [][Next]_vars

----------------------------------------------------------------------------
(* The registry under heartbeats of any HTTP client: ip_address is an      *)
(* Option in HeartbeatUpdate, and a heartbeat whose probe failed carries   *)
(* the CPU GPUInfo                                                         *)

\* one fleet, both hosts with a GPU
InitWire == Init /\ gpu_probe["w1"] = Some(GPU(8192, 2048))

\* the statuses an agent reports
AgentStatuses == {"online", "busy"}

NextWire ==
    \/ \E w \in WorkerIds : Register(w, <<>>)
    \/ \E w \in WorkerIds, loaded \in LoadedChoices, status \in AgentStatuses :
          \E ip \in {None, Some(HostPortOf(w))}, probe \in {None, gpu_probe[w]} :
              PostHeartbeat(HeartbeatPayload(w, loaded, status, ip, now, probe))
    \/ \E m \in Models : Select(m)
    \/ Advance /\ now' = Timeline[2]

SpecWire == InitWire /\ [][NextWire]_vars

----------------------------------------------------------------------------
(* POST /predict: validation, selection, the forward to the worker and the *)
(* failure write, interleaved with the other routes                        *)

\* PredictionRequest bodies: one valid and the invalid ones of each variant
\* (model_cid is not read by the coordinator)
PredictionRequest(model_type, image_url, prompt, quality_preset) ==
    [ model_type |-> model_type, image_url |-> image_url,
      prompt |-> prompt, quality_preset |-> quality_preset ]

Requests ==
    { PredictionRequest("CovidXRay", Some("ipfs://xray"), None, None),
      PredictionRequest("CovidXRay", None, None, None),
      PredictionRequest("StableDiffusion", None, Some("a cactus"), Some("fast")),
      PredictionRequest("StableDiffusion", None, None, Some("fast")),
      PredictionRequest("StableDiffusion", None, Some("a cactus"), None),
      PredictionRequest("StableDiffusion", None, Some(""), Some("fast")) }

\* mod.rs 147-170 without the is_empty test
Validate_NoEmptyCheck(request) ==
    IF request.model_type = "CovidXRay"
    THEN IF request.image_url = None
         THEN Some(<<"image_url is required for COVID X-Ray model">>)
         ELSE None
    ELSE IF request.prompt = None \/ request.quality_preset = None
         THEN Some(<<"prompt and quality_preset are required for Stable Diffusion model">>)
         ELSE None

\* mod.rs 147-170: the message of the 400 response, None for a valid body
Validate(request) ==
    IF request.model_type = "CovidXRay"
    THEN IF request.image_url = None
         THEN Some(<<"image_url is required for COVID X-Ray model">>)
         ELSE None
    ELSE IF request.prompt = None \/ request.quality_preset = None
         THEN Some(<<"prompt and quality_preset are required for Stable Diffusion model">>)
         ELSE IF request.prompt[1] = ""
              THEN Some(<<"Empty prompt">>)
              ELSE None

\* mod.rs 173-176
ModelName(request) ==
    IF request.model_type = "CovidXRay" THEN "covid_xray" ELSE "stable_diffusion"

\* the ClientError values send_prediction_request returns after posting:
\* transport failure, non-2xx status, undecodable body
ClientErrors ==
    { [kind |-> "RequestFailed", detail |-> "connection refused"],
      [kind |-> "ServerError", detail |-> "Client returned error: 500 Internal Server Error"],
      [kind |-> "InvalidResponse", detail |-> "error decoding response body"] }

\* impl Display for ClientError
ClientErrorDisplay(e) ==
    << CASE e.kind = "RequestFailed"   -> "Request failed: "
         [] e.kind = "InvalidResponse" -> "Invalid response: "
         [] e.kind = "ServerError"     -> "Server error: "
         [] OTHER                      -> "Invalid request: ",
       e.detail >>

\* types.rs 84-95: the check send_prediction_request makes before posting
SendValidate(request) ==
    IF request.model_type = "CovidXRay"
    THEN IF request.image_url = None
         THEN Some([kind |-> "InvalidRequest",
                    detail |-> "image_url is required for COVID X-Ray model"])
         ELSE None
    ELSE IF request.prompt = None \/ request.quality_preset = None
         THEN Some([kind |-> "InvalidRequest",
                    detail |-> "prompt and quality_preset are required for Stable Diffusion model"])
         ELSE None

\* the early return of a failed validation
Rejected(request, message) ==
    [NoRequest EXCEPT !.pc = "done", !.request = Some(request),
                      !.http = 400, !.message = message]

\* a None arm that answers as if the worker had failed
Unavailable_AsUpstream(slot, model_name) ==
    [slot EXCEPT !.pc = "done", !.http = 500,
                 !.message = <<"No available client found">>]

\* mod.rs 189-195: the None arm of find_best_client
Unavailable(slot, model_name) ==
    [slot EXCEPT !.pc = "done", !.http = 503,
                 !.message = <<"No available client found for model type ", model_name>>]

\* mod.rs 214-221: the HeartbeatUpdate built from the copy select returned
\* (the literal names no gpu_info; the copy's is used)
FailureUpdate(client, t) ==
    [ client_id |-> client.client_id,
      status |-> "error",
      loaded_models |-> client.loaded_models,
      last_heartbeat |-> t,
      ip_address |-> Some(client.ip_address),
      capabilities |-> client.capabilities,
      gpu_info |-> client.gpu_info ]

\* an Err arm that only answers
FailureWrite_Skipped(cl, client, t) == [clients |-> cl, result |-> "Ok"]

\* an Err arm that puts the copy back when the record is gone
FailureWrite_Reinserts(cl, client, t) ==
    IF client.client_id \in DOMAIN cl
    THEN UpdateClient(cl, FailureUpdate(client, t))
    ELSE [ clients |-> Insert(cl, client.client_id,
                              [client EXCEPT !.status = "error", !.last_heartbeat = t]),
           result  |-> "Ok" ]

\* mod.rs 214-223: registry.update_client(HeartbeatUpdate {..})
FailureWrite(cl, client, t) == UpdateClient(cl, FailureUpdate(client, t))

\* an Err arm that posts the request again
PredictErr_Retry(slot, e) ==
    [slot EXCEPT !.upstream = Some(e)]

\* mod.rs 224-227: the response of the Err arm
PredictErr(slot, e) ==
    [slot EXCEPT !.pc = "done", !.upstream = Some(e), !.http = 500,
                 !.message = ClientErrorDisplay(e)]

\* POST /predict arrives on slot r: validation, then find_best_client
PredictStart(r, request) ==
    /\ reqs[r].pc \in {"idle", "done"}
    /\ op' = Call("predict", r, Some(request))
    /\ IF Validate(request) # None
       THEN /\ reqs' = [reqs EXCEPT ![r] = Rejected(request, Validate(request)[1])]
            /\ ret' = [NoRet EXCEPT !.http = 400]
            /\ UNCHANGED clients
       ELSE \E o \in FindBestClient(clients, now, ModelName(request)) :
              LET slot == [NoRequest EXCEPT !.request = Some(request),
                                            !.selects = @ + 1]
                  next == IF o.result = None
                          THEN Unavailable(slot, ModelName(request))
                          ELSE [slot EXCEPT !.pc = "forwarding",
                                            !.client = o.result]
              IN  /\ clients' = o.clients
                  /\ reqs' = [reqs EXCEPT ![r] = next]
                  /\ ret' = [NoRet EXCEPT !.client = o.result,
                                          !.removed = o.removed,
                                          !.http = next.http]
    /\ UNCHANGED <<now, gpu_probe, failed, calls, agent, preds>>

\* send_prediction_request returns Ok: Json(response)
ForwardOk(r) ==
    /\ reqs[r].pc = "forwarding"
    /\ SendValidate(reqs[r].request[1]) = None
    /\ reqs' = [reqs EXCEPT ![r].pc = "done", ![r].http = 200,
                            ![r].forwards = @ + 1]
    /\ op' = Call("forward", r, None)
    /\ ret' = [NoRet EXCEPT !.http = 200]
    /\ UNCHANGED <<clients, now, gpu_probe, failed, calls, agent, preds>>

\* send_prediction_request returns Err(e): failure write, then 500
ForwardErr(r, e) ==
    /\ reqs[r].pc = "forwarding"
    /\ IF SendValidate(reqs[r].request[1]) # None
       THEN e = SendValidate(reqs[r].request[1])[1]
       ELSE e \in ClientErrors
    /\ LET client == reqs[r].client[1]
           w == FailureWrite(clients, client, now)
           posted == IF SendValidate(reqs[r].request[1]) = None THEN 1 ELSE 0
           slot == PredictErr([reqs[r] EXCEPT !.forwards = @ + posted], e)
       IN  /\ clients' = w.clients
           /\ reqs' = [reqs EXCEPT ![r] = slot]
           /\ op' = Call("failure", r, Some(e))
           /\ ret' = [NoRet EXCEPT !.result = w.result, !.http = slot.http]
           /\ failed' = failed \cup {client.client_id}
    /\ UNCHANGED <<now, gpu_probe, calls, agent, preds>>

\* the fleet of one host without a GPU and one with a small GPU
InitPredict == Init /\ gpu_probe["w1"] = None

NextPredict ==
    \/ \E w \in WorkerIds : Register(w, <<>>)
    \/ \E w \in WorkerIds, loaded \in LoadedChoices :
          Heartbeat(w, loaded, "online", Some(HostPortOf(w)))
    \/ \E r \in RequestIds, request \in Requests : PredictStart(r, request)
    \/ \E r \in RequestIds : ForwardOk(r)
    \/ \E r \in RequestIds, e \in ClientErrors : ForwardErr(r, e)
    \/ \E m \in Models : Select(m)
    \/ ListClients
    \/ Scan
    \/ Advance

SpecPredict == InitPredict /\ [][NextPredict]_vars

----------------------------------------------------------------------------
(* The registry methods step by step: each takes the RwLock guard in its   *)
(* first statement and holds it until it returns                           *)

\* the methods that take clients.write(); get_active_clients takes read()
Writers == {"register", "update", "select", "scan"}

\* the calls the threads make
RegistryCalls ==
    { [name |-> "register",
       arg |-> Some(RegisterPayload(w, <<>>, now, gpu_probe[w]))] : w \in WorkerIds }
    \cup { [name |-> "update",
            arg |-> Some(HeartbeatPayload(w, <<>>, "online", Some(HostPortOf(w)),
                                          now, gpu_probe[w]))] : w \in WorkerIds }
    \cup { [name |-> "select", arg |-> Some("covid_xray")],
           [name |-> "scan", arg |-> None],
           [name |-> "list", arg |-> None] }

\* a lock that admits every thread
CanAcquire_Unguarded(cs, t) == TRUE

\* RwLock: write() waits for every guard to be dropped, read() for the
\* write guard
CanAcquire(cs, t) ==
    \A u \in ThreadIds \ {t} :
        cs[u].pc \in {"locked", "retained", "returning"} =>
            /\ cs[u].name \notin Writers
            /\ cs[t].name \notin Writers

\* the method body run in one piece on map cl at time at
Perform(cl, c, at) ==
    CASE c.name = "register" ->
           { [clients |-> RegisterClient(cl, c.arg[1]).clients,
              out |-> [NoOut EXCEPT !.result = RegisterClient(cl, c.arg[1]).result]] }
      [] c.name = "update" ->
           { [clients |-> UpdateClient(cl, c.arg[1]).clients,
              out |-> [NoOut EXCEPT !.result = UpdateClient(cl, c.arg[1]).result]] }
      [] c.name = "select" ->
           { [clients |-> o.clients, out |-> [NoOut EXCEPT !.client = o.result]] :
                 o \in FindBestClient(cl, at, c.arg[1]) }
      [] c.name = "scan" ->
           { [clients |-> CleanupInactiveClients(cl, at).clients, out |-> NoOut] }
      [] OTHER ->
           { [clients |-> GetActiveClients(cl, at).clients,
              out |-> [NoOut EXCEPT !.list = GetActiveClients(cl, at).result]] }

\* a handler calls a registry method
Begin(t, c) ==
    /\ calls[t].pc = "idle"
    /\ calls' = [calls EXCEPT ![t] = [NoCall EXCEPT !.pc = "waiting",
                                                  !.name = c.name, !.arg = c.arg]]
    /\ UNCHANGED <<clients, now, gpu_probe, op, ret, reqs, failed, agent, preds>>

\* self.clients.write().unwrap() / read().unwrap(), then Utc::now()
Acquire(t) ==
    /\ calls[t].pc = "waiting"
    /\ CanAcquire(calls, t)
    /\ calls' = [calls EXCEPT ![t].pc = "locked", ![t].snapshot = clients,
                              ![t].at = now]
    /\ UNCHANGED <<clients, now, gpu_probe, op, ret, reqs, failed, agent, preds>>

\* find_best_client: clients.retain(..)
Retain(t) ==
    /\ calls[t].pc = "locked"
    /\ calls[t].name = "select"
    /\ clients' = Restrict(clients,
                     {id \in DOMAIN clients : IsActive(clients[id], calls[t].at)})
    /\ calls' = [calls EXCEPT ![t].pc = "retained"]
    /\ UNCHANGED <<now, gpu_probe, op, ret, reqs, failed, agent, preds>>

\* the rest of the body: find_best_client after retain, the others whole
Body(t) ==
    /\ \/ calls[t].pc = "retained"
       \/ calls[t].pc = "locked" /\ calls[t].name # "select"
    /\ \E o \in Perform(clients, calls[t], calls[t].at) :
          /\ clients' = o.clients
          /\ calls' = [calls EXCEPT ![t].pc = "returning", ![t].out = o.out]
    /\ UNCHANGED <<now, gpu_probe, op, ret, reqs, failed, agent, preds>>

\* the guard is dropped and the method returns
Return(t) ==
    /\ calls[t].pc = "returning"
    /\ calls' = [calls EXCEPT ![t] = NoCall]
    /\ UNCHANGED <<clients, now, gpu_probe, op, ret, reqs, failed, agent, preds>>

\* the host without a GPU and the host with a small one
InitLock == Init /\ gpu_probe["w1"] = None

NextLock ==
    \/ \E t \in ThreadIds, c \in RegistryCalls : Begin(t, c)
    \/ \E t \in ThreadIds : Acquire(t)
    \/ \E t \in ThreadIds : Retain(t)
    \/ \E t \in ThreadIds : Body(t)
    \/ \E t \in ThreadIds : Return(t)
    \/ Advance /\ now' = Timeline[3]

SpecLock == InitLock /\ [][NextLock]_vars

----------------------------------------------------------------------------
(* The worker agent: main and GPUClientManager::start, the heartbeat       *)
(* thread, the HTTP server task and the /predict handler                   *)

\* the process has not ended
Alive == agent.exit = None

\* what an agent step leaves alone on the coordinator side
AgentFrame == UNCHANGED <<now, gpu_probe, reqs, failed, calls>>

\* the Vecs HashMap::keys() can yield for the loaded models
Orders(S) ==
    IF S = {} THEN {<<>>}
    ELSE IF Cardinality(S) = 1 THEN {<<m>> : m \in S}
    ELSE {p \in S \X S : p[1] # p[2]}

\* a start that logs the failed registration and carries on
RegistrationFailed_Continues(a) ==
    [a EXCEPT !.main = "awaiting", !.hb = "top", !.server = "binding"]

\* register().await? returns Err out of start; main prints it and calls
\* std::process::exit(1) (main.rs 92-95)
RegistrationFailed(a) == [a EXCEPT !.main = "exited", !.exit = Some(1)]

\* main: client.start().await up to the spawns; register() fails on a
\* transport error or a non-2xx answer, and main then exits with code 1
Start(ok) ==
    /\ Alive
    /\ agent.main = "new"
    /\ op' = Call("start", Self, None)
    /\ IF ok
       THEN \E loaded \in Orders(agent.loaded) :
              LET r == RegisterClient(clients,
                           RegisterPayload(Self, loaded, now, gpu_probe[Self]))
              IN  /\ clients' = r.clients
                  /\ ret' = [NoRet EXCEPT !.result = r.result]
                  /\ agent' = [agent EXCEPT !.running = TRUE, !.main = "awaiting",
                                            !.hb = "top", !.server = "binding",
                                            !.known_loaded = loaded]
       ELSE /\ agent' = RegistrationFailed([agent EXCEPT !.running = TRUE])
            /\ ret' = [NoRet EXCEPT !.result = "Err"]
            /\ UNCHANGED clients
    /\ UNCHANGED preds
    /\ AgentFrame

\* the server task: TcpListener::bind(addr).await
Bind(ok) ==
    /\ Alive
    /\ agent.server = "binding"
    /\ agent' = [agent EXCEPT !.server = IF ok THEN "listening" ELSE "failed"]
    /\ op' = Call("bind", Self, None)
    /\ ret' = [NoRet EXCEPT !.result = IF ok THEN "Ok" ELSE "Err"]
    /\ UNCHANGED <<clients, preds>>
    /\ AgentFrame

\* server_handle.await completes, start returns Ok(()) and main returns
StartReturns ==
    /\ Alive
    /\ agent.main = "awaiting"
    /\ agent.server = "failed"
    /\ agent' = [agent EXCEPT !.main = "exited", !.exit = Some(0)]
    /\ op' = Call("return", Self, None)
    /\ ret' = [NoRet EXCEPT !.result = "Ok"]
    /\ UNCHANGED <<clients, preds>>
    /\ AgentFrame

\* SIGINT or SIGTERM: the signal task calls client_clone.stop()
Stop ==
    /\ Alive
    /\ ~agent.stopped
    /\ agent' = [agent EXCEPT !.running = FALSE, !.stopped = TRUE]
    /\ op' = Call("stop", Self, None)
    /\ ret' = NoRet
    /\ UNCHANGED <<clients, preds>>
    /\ AgentFrame

\* while running.load(..): into send_heartbeat, or out of the loop
HbCheck ==
    /\ Alive
    /\ agent.hb = "top"
    /\ agent' = IF agent.running
                THEN [agent EXCEPT !.hb = "models", !.hb_loaded = <<>>,
                                   !.hb_status = "online", !.hb_late = {}]
                ELSE [agent EXCEPT !.hb = "stopped"]
    /\ op' = Call("hb_check", Self, None)
    /\ ret' = NoRet
    /\ UNCHANGED <<clients, preds>>
    /\ AgentFrame

\* a timeout that never fires
TimeoutElapses_Never(holder) == FALSE

\* tokio::time::timeout(100 ms, lock()) returns Err: the guard stayed taken
TimeoutElapses(holder) == holder # None

\* model_manager.lock() acquired: get_loaded_models()
HbReadModels ==
    /\ Alive
    /\ agent.hb = "models"
    /\ agent.mm_lock = None
    /\ \E loaded \in Orders(agent.loaded) :
          agent' = [agent EXCEPT !.hb = "status", !.hb_loaded = loaded,
                                 !.known_loaded = loaded]
    /\ op' = Call("hb_models", Self, None)
    /\ ret' = NoRet
    /\ UNCHANGED <<clients, preds>>
    /\ AgentFrame

\* model_manager.lock() timed out: "using empty values"
HbModelsTimeout ==
    /\ Alive
    /\ agent.hb = "models"
    /\ TimeoutElapses(agent.mm_lock)
    /\ agent' = [agent EXCEPT !.hb = "status", !.hb_late = @ \cup {"model_manager"}]
    /\ op' = Call("hb_models_timeout", Self, None)
    /\ ret' = NoRet
    /\ UNCHANGED <<clients, preds>>
    /\ AgentFrame

\* status.lock() acquired: current_status = status.clone()
HbReadStatus ==
    /\ Alive
    /\ agent.hb = "status"
    /\ agent.status_lock = None
    /\ agent' = [agent EXCEPT !.hb = "send", !.hb_status = agent.status,
                              !.known_status = agent.status]
    /\ op' = Call("hb_status", Self, None)
    /\ ret' = NoRet
    /\ UNCHANGED <<clients, preds>>
    /\ AgentFrame

\* status.lock() timed out: "using default status"
HbStatusTimeout ==
    /\ Alive
    /\ agent.hb = "status"
    /\ TimeoutElapses(agent.status_lock)
    /\ agent' = [agent EXCEPT !.hb = "send", !.hb_late = @ \cup {"status"}]
    /\ op' = Call("hb_status_timeout", Self, None)
    /\ ret' = NoRet
    /\ UNCHANGED <<clients, preds>>
    /\ AgentFrame

\* how the POST /heartbeat/{id} can end: answered 2xx, transport error,
\* the 3 s timeout, a non-2xx answer
HbOutcomes == {"answered", "transport error", "timed out", "rejected"}

\* the HeartbeatUpdate send_heartbeat builds
HbUpdate ==
    HeartbeatPayload(Self, agent.hb_loaded, agent.hb_status,
                     Some(HostPortOf(Self)), now, gpu_probe[Self])

\* a loop that ends on the first failed heartbeat
AfterHeartbeat_BreakOnErr(result) == IF result = "Ok" THEN "sleep" ELSE "stopped"

\* manager.rs 114-124: both arms of the match log, then the loop sleeps
AfterHeartbeat(result) == "sleep"

\* the POST and what send_heartbeat returns; the loop logs it and sleeps
HbSend(outcome) ==
    /\ Alive
    /\ agent.hb = "send"
    /\ op' = Call("hb_send", Self, Some(HbUpdate))
    /\ IF outcome = "answered"
       THEN LET r == UpdateClient(clients, HbUpdate)
            IN  /\ clients' = r.clients
                /\ ret' = [NoRet EXCEPT !.result = "Ok", !.http = 200,
                                        !.body = UpdateResponse(r.result)]
                /\ agent' = [agent EXCEPT !.hb = AfterHeartbeat("Ok"),
                                !.hb_loaded = <<>>, !.hb_status = "online",
                                !.reply = IF r.result = "Ok" THEN "success"
                                          ELSE Display(r.result)]
       ELSE /\ ret' = [NoRet EXCEPT !.result = "Err"]
            /\ agent' = [agent EXCEPT !.hb = AfterHeartbeat("Err"),
                            !.hb_loaded = <<>>, !.hb_status = "online",
                            !.reply = outcome]
            /\ UNCHANGED clients
    /\ UNCHANGED preds
    /\ AgentFrame

\* tokio::time::sleep(1 s) is over
HbWake ==
    /\ Alive
    /\ agent.hb = "sleep"
    /\ agent' = [agent EXCEPT !.hb = "top"]
    /\ op' = Call("hb_wake", Self, None)
    /\ ret' = NoRet
    /\ UNCHANGED <<clients, preds>>
    /\ AgentFrame

\* the bodies POSTed to the worker's /predict
WorkerRequests ==
    { PredictionRequest("CovidXRay", Some("ipfs://xray"), None, None),
      PredictionRequest("CovidXRay", None, None, None),
      PredictionRequest("StableDiffusion", None, Some("a cactus"), Some("fast")),
      PredictionRequest("StableDiffusion", None, Some(""), Some("fast")) }

\* the handler is over: what it was asked and what it answers
Respond(h, request, response) ==
    Call("respond", h, Some([request |-> request, response |-> response]))

\* PredictionResponse, as far as success and error go
SuccessResponse == [success |-> TRUE, error |-> None]

\* a failure body that carries no error text
ErrorResponse_NoError(message) == [success |-> FALSE, error |-> None]

\* PredictionResponse { success: false, .., error: Some(message) }
ErrorResponse(message) == [success |-> FALSE, error |-> Some(message)]

\* the if-let tests of the two match arms (manager.rs 438, 544)
HasFields(request) ==
    IF request.model_type = "CovidXRay"
    THEN request.image_url # None
    ELSE request.prompt # None /\ request.quality_preset # None

\* the else arms (manager.rs 531-541, 612-622)
MissingFields(request) ==
    IF request.model_type = "CovidXRay"
    THEN ErrorResponse(<<"image_url is required for COVID X-Ray model">>)
    ELSE ErrorResponse(<<"prompt and quality_preset are required for Stable Diffusion model">>)

\* the error arm of a stage: an arm that is the value of `result` reaches
\* the status reset ("finish"), an arm that says `return` does not
StageFailed(request, stage) ==
    CASE stage = "init" ->
           [pc |-> "finish",
            response |-> ErrorResponse(<<"Failed to initialize Python module: ", "e">>)]
      [] stage = "load" ->
           [pc |-> IF request.model_type = "CovidXRay" THEN "finish" ELSE "returned",
            response |-> ErrorResponse(<<"Failed to load model: ", "e">>)]
      [] stage = "device" ->
           [pc |-> "returned",
            response |-> ErrorResponse(<<"Failed to get device info: ", "e">>)]
      [] OTHER ->
           IF request.model_type = "CovidXRay"
           THEN [pc |-> "finish",
                 response |-> ErrorResponse(<<"Failed to process X-ray image: ", "e">>)]
           ELSE [pc |-> "returned",
                 response |-> ErrorResponse(<<"Failed to generate image: ", "e">>)]

\* the stage after a stage that went well; "" when the response is ready
NextStage(request, stage) ==
    CASE stage = "init"   -> IF HasFields(request) THEN "load" ELSE ""
      [] stage = "load"   -> IF request.model_type = "CovidXRay" THEN "device" ELSE "run"
      [] stage = "device" -> "run"
      [] OTHER            -> ""

\* POST /predict on the worker: predict calls handle_prediction_request;
\* get_python_home()? may fail before anything is touched
PredictEnter(h, request, env_ok) ==
    /\ Alive
    /\ agent.server = "listening"
    /\ preds[h].pc = "idle"
    /\ preds' = [preds EXCEPT ![h] =
          IF env_ok
          THEN [NoPrediction EXCEPT !.pc = "entered", !.request = Some(request)]
          ELSE NoPrediction]
    /\ op' = IF env_ok
             THEN Call("predict_enter", h, Some(request))
             ELSE Respond(h, request,
                          ErrorResponse(<<"Failed to get executable directory">>))
    /\ ret' = NoRet
    /\ UNCHANGED <<clients, agent>>
    /\ AgentFrame

\* manager.rs 409: the status guard is taken and "busy" stored
SetBusy(h) ==
    /\ Alive
    /\ preds[h].pc = "entered"
    /\ agent.status_lock = None
    /\ agent' = [agent EXCEPT !.status = "busy"]
    /\ preds' = [preds EXCEPT ![h].pc = "stage", ![h].stage = "init"]
    /\ op' = Call("set_busy", h, None)
    /\ ret' = NoRet
    /\ UNCHANGED clients
    /\ AgentFrame

\* self.model_manager.lock().await of the current stage
StageAcquire(h) ==
    /\ Alive
    /\ preds[h].pc = "stage"
    /\ ~preds[h].holding
    /\ agent.mm_lock = None
    /\ agent' = [agent EXCEPT !.mm_lock = Some(h)]
    /\ preds' = [preds EXCEPT ![h].holding = TRUE]
    /\ op' = Call("stage_acquire", h, None)
    /\ ret' = NoRet
    /\ UNCHANGED clients
    /\ AgentFrame

\* the stage's call on the ModelManager returns Ok (ok) or Err; the guard
\* is dropped, except by the early return of a failed initialize, which
\* keeps it while it takes the status guard
StageEnd(h, ok) ==
    /\ Alive
    /\ preds[h].pc = "stage"
    /\ preds[h].holding
    /\ (preds[h].stage = "init" /\ agent.initialized) => ok
    /\ LET request == preds[h].request[1]
           stage   == preds[h].stage
           keeps   == ~ok /\ stage = "init"
           next    == NextStage(request, stage)
       IN  /\ agent' = [agent EXCEPT
                 !.mm_lock = IF keeps THEN @ ELSE None,
                 !.initialized = IF stage = "init" /\ ok THEN TRUE ELSE @,
                 !.loaded = IF stage = "load" /\ ok
                            THEN @ \cup {ModelName(request)} ELSE @]
           /\ preds' = [preds EXCEPT ![h] =
                 IF ~ok
                 THEN IF StageFailed(request, stage).pc = "returned"
                      THEN NoPrediction
                      ELSE [@ EXCEPT !.pc = "finish", !.holding = keeps,
                                     !.response = Some(StageFailed(request, stage).response)]
                 ELSE IF next # ""
                 THEN [@ EXCEPT !.stage = next, !.holding = FALSE]
                 ELSE [@ EXCEPT !.pc = "finish", !.holding = FALSE,
                                !.response = Some(IF HasFields(request)
                                                  THEN SuccessResponse
                                                  ELSE MissingFields(request))]]
           /\ op' = IF ~ok /\ StageFailed(request, stage).pc = "returned"
                    THEN Respond(h, request, StageFailed(request, stage).response)
                    ELSE Call("stage_end", h, None)
    /\ ret' = [NoRet EXCEPT !.result = IF ok THEN "Ok" ELSE "Err"]
    /\ UNCHANGED clients
    /\ AgentFrame

\* let mut status = self.status.lock().await (manager.rs 420, 628)
FinishLock(h) ==
    /\ Alive
    /\ preds[h].pc = "finish"
    /\ agent.status_lock = None
    /\ agent' = [agent EXCEPT !.status_lock = Some(h)]
    /\ preds' = [preds EXCEPT ![h].pc = "finishing"]
    /\ op' = Call("finish_lock", h, None)
    /\ ret' = NoRet
    /\ UNCHANGED clients
    /\ AgentFrame

\* *status = "online"; the guards are dropped and the response returned
FinishWrite(h) ==
    /\ Alive
    /\ preds[h].pc = "finishing"
    /\ agent' = [agent EXCEPT !.status = "online", !.status_lock = None,
                              !.mm_lock = IF preds[h].holding THEN None ELSE @]
    /\ preds' = [preds EXCEPT ![h] = NoPrediction]
    /\ op' = Respond(h, preds[h].request[1], preds[h].response[1])
    /\ ret' = NoRet
    /\ UNCHANGED clients
    /\ AgentFrame

\* the coordinator process is restarted: ClientRegistry::new()
CoordinatorRestart ==
    /\ clients # <<>>
    /\ clients' = <<>>
    /\ op' = Call("restart", "", None)
    /\ ret' = NoRet
    /\ UNCHANGED <<agent, preds>>
    /\ AgentFrame


\* one host pair, both with an 8192 MiB GPU
InitAgent == Init /\ gpu_probe["w1"] = Some(GPU(8192, 4096))

\* the life of the agent process against the coordinator
NextAgent ==
    \/ \E ok \in BOOLEAN : Start(ok)
    \/ \E ok \in BOOLEAN : Bind(ok)
    \/ StartReturns
    \/ Stop
    \/ HbCheck
    \/ HbReadModels
    \/ HbReadStatus
    \/ \E outcome \in HbOutcomes : HbSend(outcome)
    \/ HbWake
    \/ CoordinatorRestart

SpecAgent == InitAgent /\ [][NextAgent]_vars

\* every task of a live process keeps being scheduled; signals and
\* coordinator restarts need not happen
SpecAgentFair ==
    /\ SpecAgent
    /\ WF_vars(\E ok \in BOOLEAN : Start(ok))
    /\ WF_vars(\E ok \in BOOLEAN : Bind(ok))
    /\ WF_vars(StartReturns)
    /\ WF_vars(HbCheck)
    /\ WF_vars(HbReadModels)
    /\ WF_vars(HbReadStatus)
    /\ WF_vars(\E outcome \in HbOutcomes : HbSend(outcome))
    /\ WF_vars(HbWake)

\* the agent once start() has registered it and its server listens
UpAgent ==
    [NewAgent EXCEPT !.main = "awaiting", !.running = TRUE,
                     !.server = "listening", !.hb = "top"]

InitServe ==
    /\ gpu_probe \in Fleets
    /\ gpu_probe["w1"] = Some(GPU(8192, 4096))
    /\ now = Timeline[1]
    /\ clients = RegisterClient(<<>>, RegisterPayload(Self, <<>>, now, gpu_probe[Self])).clients
    /\ op = Call("bind", Self, None)
    /\ ret = [NoRet EXCEPT !.result = "Ok"]
    /\ reqs = [r \in RequestIds |-> NoRequest]
    /\ failed = {}
    /\ calls = [t \in ThreadIds |-> NoCall]
    /\ agent = UpAgent
    /\ preds = [h \in HandlerIds |-> NoPrediction]

\* the steps of one /predict invocation
Handler(h) ==
    \/ \E request \in WorkerRequests, env_ok \in BOOLEAN :
          PredictEnter(h, request, env_ok)
    \/ SetBusy(h)
    \/ StageAcquire(h)
    \/ \E ok \in BOOLEAN : StageEnd(h, ok)
    \/ FinishLock(h)
    \/ FinishWrite(h)

\* the steps of the heartbeat thread inside send_heartbeat and the loop
HeartbeatThread ==
    \/ HbCheck
    \/ HbReadModels
    \/ HbModelsTimeout
    \/ HbReadStatus
    \/ HbStatusTimeout
    \/ HbSend("answered")
    \/ HbWake

\* the agent serving one prediction at a time while its heartbeat thread runs
NextServe ==
    \/ HeartbeatThread
    \/ Handler("h1")

SpecServe == InitServe /\ [][NextServe]_vars

\* the heartbeat thread is a thread of its own with its own runtime: it
\* keeps being scheduled, and each lock attempt ends within its timeout;
\* a handler may sit in a stage for ever
SpecServeFair ==
    /\ SpecServe
    /\ WF_vars(HbCheck)
    /\ WF_vars(HbReadModels \/ HbModelsTimeout)
    /\ WF_vars(HbReadStatus \/ HbStatusTimeout)
    /\ WF_vars(HbSend("answered"))
    /\ WF_vars(HbWake)

\* the agent serving COVID X-ray predictions concurrently
NextConcurrent ==
    \/ HeartbeatThread
    \/ \E h \in HandlerIds :
          \/ PredictEnter(h, PredictionRequest("CovidXRay", Some("ipfs://xray"), None, None), TRUE)
          \/ SetBusy(h)
          \/ StageAcquire(h)
          \/ \E ok \in BOOLEAN : StageEnd(h, ok)
          \/ FinishLock(h)
          \/ FinishWrite(h)

SpecConcurrent == InitServe /\ [][NextConcurrent]_vars

----------------------------------------------------------------------------
(* Vocabulary of the specification, used to state the properties *)

\* LivenessWindow: 30 s
LivenessWindowMs == 30 * 1000

\* MinVRAM(M) in MiB
MinVRAM(m) == IF m = "stable_diffusion" THEN 8192 ELSE 0

\* a record is live iff now - last_heartbeat < LivenessWindow
Live(c, t) == t - c.last_heartbeat < LivenessWindowMs

\* the eligibility filter of the selection algorithm, step 2
SpecEligible(c, m) ==
    /\ c.status = "online"
    /\ c.gpu_info.total_memory > 0
    /\ \/ Contains(c.loaded_models, m)
       \/ c.gpu_info.total_memory >= MinVRAM(m)

\* a is strictly better than b under the rank (-total, -free)
StrictlyBetter(a, b) ==
    \/ a.gpu_info.total_memory > b.gpu_info.total_memory
    \/ /\ a.gpu_info.total_memory = b.gpu_info.total_memory
       /\ a.gpu_info.free_memory > b.gpu_info.free_memory

\* the step is a select call that returned a worker
SelectedStep == op'.name = "select" /\ ret'.client # None

\* a payload that fails variant validation
InvalidPayload(request) ==
    \/ request.model_type = "CovidXRay" /\ request.image_url = None
    \/ /\ request.model_type = "StableDiffusion"
       /\ \/ request.prompt = None
          \/ request.quality_preset = None
          \/ request.prompt = Some("")

\* the worker a request slot was forwarded to
ForwardedTo(r) == reqs[r].client[1].client_id

----------------------------------------------------------------------------
(* C1: whenever select(M) returns w, w's record at the moment of selection *)
(* was live, online, had total memory > 0, and either listed M or had      *)
(* total memory >= MinVRAM(M).                                             *)
C1_SelectionSoundness ==
    [][ SelectedStep =>
          LET w == ret'.client[1].client_id
              m == op'.arg
          IN  /\ w \in DOMAIN clients
              /\ Live(clients[w], now)
              /\ clients[w].status = "online"
              /\ clients[w].gpu_info.total_memory > 0
              /\ \/ Contains(clients[w].loaded_models, m)
                 \/ clients[w].gpu_info.total_memory >= MinVRAM(m) ]_vars

(* C2: when select(M) returns w, no other live eligible record is strictly *)
(* better than w under (total memory descending, free memory descending).  *)
C2_RankOptimal ==
    [][ SelectedStep =>
          LET w == ret'.client[1].client_id
              m == op'.arg
          IN  \A id \in DOMAIN clients :
                  ( /\ Live(clients[id], now)
                    /\ SpecEligible(clients[id], m) \/ Eligible(clients[id], m) )
                  => ~StrictlyBetter(clients[id], clients[w]) ]_vars

\* a select returned the better of two online GPU workers
C2_Witness ==
    /\ op.name = "select"
    /\ ret.client # None
    /\ \E id \in DOMAIN clients :
          /\ clients[id].status = "online"
          /\ clients[id].gpu_info.total_memory > 0
          /\ StrictlyBetter(ret.client[1], clients[id])

(* C3: if a live record satisfies the eligibility filter for M, select(M)  *)
(* returns Some; it returns none only when, after eviction, the filter     *)
(* leaves no candidate.                                                    *)
C3_SelectionComplete ==
    [][ op'.name = "select" =>
          LET m == op'.arg
          IN  /\ (\E id \in DOMAIN clients :
                      Live(clients[id], now) /\ SpecEligible(clients[id], m))
                  => ret'.client # None
              /\ ret'.client = None
                  => \A id \in DOMAIN clients' :
                        /\ ~SpecEligible(clients'[id], m)
                        /\ ~Eligible(clients'[id], m) ]_vars

\* a select returned a worker that had to load the model, next to a busy one
C3_Witness ==
    /\ op.name = "select"
    /\ ret.client # None
    /\ ~Contains(ret.client[1].capabilities.models, op.arg)
    /\ \E id \in DOMAIN clients : clients[id].status # "online"

(* C4: right after select(M) returns w, the registry's record for w.id     *)
(* lists M (appended if absent, not duplicated if present) and so does the *)
(* returned copy.                                                          *)
C4_SpeculativeLoad ==
    [][ SelectedStep =>
          LET w == ret'.client[1].client_id
              m == op'.arg
          IN  /\ w \in DOMAIN clients'
              /\ clients'[w].loaded_models =
                    IF Contains(clients[w].loaded_models, m)
                    THEN clients[w].loaded_models
                    ELSE Append(clients[w].loaded_models, m)
              /\ Contains(clients'[w].loaded_models, m)
              /\ Contains(ret'.client[1].loaded_models, m) ]_vars

\* a select appended a model the worker had not reported
C4_Witness ==
    /\ op.name = "select"
    /\ ret.client # None
    /\ ret.client[1].client_id \in DOMAIN clients
    /\ LET c == clients[ret.client[1].client_id]
       IN  /\ ~Contains(c.capabilities.models, op.arg)
           /\ c.loaded_models = Append(c.capabilities.models, op.arg)

(* C5: an online worker that does not list stable_diffusion is eligible    *)
(* for select("stable_diffusion") iff its total memory is >= 8192 MiB; for *)
(* any other model the threshold is 0.                                     *)
C5_MinVRAMBoundary ==
    [][ op'.name = "select" =>
          LET m == op'.arg
          IN  /\ ret'.client # None
                  => LET c == clients[ret'.client[1].client_id]
                     IN  ~Contains(c.loaded_models, m)
                            => c.gpu_info.total_memory >= MinVRAM(m)
              /\ (\E id \in DOMAIN clients :
                      /\ Live(clients[id], now)
                      /\ clients[id].status = "online"
                      /\ clients[id].gpu_info.total_memory > 0
                      /\ clients[id].gpu_info.total_memory >= MinVRAM(m))
                  => ret'.client # None ]_vars

(* C6: select(M) removes every record of age >= 30 s and keeps every       *)
(* record of age < 30 s, whether or not a worker is returned; afterwards   *)
(* the map holds no record of age >= 30 s.                                 *)
C6_SelectEvicts ==
    [][ op'.name = "select" =>
          /\ DOMAIN clients' =
                {id \in DOMAIN clients : now - clients[id].last_heartbeat < 30000}
          /\ ret'.removed =
                {id \in DOMAIN clients : now - clients[id].last_heartbeat >= 30000}
          /\ \A id \in DOMAIN clients' :
                now' - clients'[id].last_heartbeat < 30000 ]_vars

\* a select at least 30 s after the last heartbeat of the only worker
\* returned none and left the registry empty
C6_Witness ==
    /\ op.name = "select"
    /\ ret.client = None
    /\ Cardinality(ret.removed) = 1
    /\ DOMAIN clients = {}
    /\ now >= 30000

(* C7: list_active returns exactly the records with                        *)
(* now - last_heartbeat < LivenessWindow, the 30 s window select uses.     *)
C7_ListActiveWindow ==
    op.name = "list" =>
        ret.list = {clients[id] : id \in {k \in DOMAIN clients : Live(clients[k], now)}}

(* C8: list_active does not mutate the registry: the record map after the  *)
(* call, stale records included, is the map before it.                     *)
C8_ListActiveFrame ==
    [][ op'.name = "list" => clients' = clients ]_vars

\* a listing left a record out and the record is still in the map
C8_Witness ==
    /\ op.name = "list"
    /\ \E id \in DOMAIN clients : clients[id] \notin ret.list
    /\ ret.list # {}

(* C9: immediately after scan(), every record remaining in the map has     *)
(* now - last_heartbeat < LivenessWindow, and every record that was        *)
(* non-live before the scan has been removed.                              *)
C9_LivenessMonotone ==
    [][ op'.name = "scan" =>
          /\ \A id \in DOMAIN clients' : Live(clients'[id], now')
          /\ \A id \in DOMAIN clients :
                ~Live(clients[id], now) => id \notin DOMAIN clients' ]_vars

\* a scan removed a record and kept another
C9_Witness ==
    /\ op.name = "scan"
    /\ ret.removed # {}
    /\ DOMAIN clients # {}

(* C10: update for an id that is not in the registry returns NotFound,     *)
(* creates no record and leaves the map unchanged; POST /heartbeat/{id}    *)
(* answers HTTP 200 with body status "error" and a client-not-found        *)
(* message.                                                                *)
C10_UpdateUnknown ==
    [][ op'.name = "update" =>
          /\ op'.arg \notin DOMAIN clients
                <=> ret'.result = "ClientNotFound"
          /\ ret'.result = "ClientNotFound"
                => /\ clients' = clients
                   /\ op'.arg \notin DOMAIN clients'
                   /\ ret'.http = 200
                   /\ ret'.body.status = "error"
                   /\ Contains(ret'.body.message, "client not found") ]_vars

\* a heartbeat for an unknown id was answered while another worker is known
C10_Witness ==
    /\ op.name = "update"
    /\ ret.result = "ClientNotFound"
    /\ op.arg \notin DOMAIN clients
    /\ DOMAIN clients # {}

(* C11: for a known id, update(hb) sets loaded_models, status,             *)
(* last_heartbeat, capabilities and gpu to the payload's values, replaces  *)
(* the endpoint only when the payload carries one, leaves id and port      *)
(* unchanged, and changes no other record.                                 *)
C11_HeartbeatAuthoritative ==
    [][ (op'.name = "update" /\ op'.arg \in DOMAIN clients) =>
          LET hb == op'.body[1]
              w  == op'.arg
          IN  /\ ret'.result = "Ok"
              /\ DOMAIN clients' = DOMAIN clients
              /\ clients'[w].loaded_models = hb.loaded_models
              /\ clients'[w].status = hb.status
              /\ clients'[w].last_heartbeat = hb.last_heartbeat
              /\ clients'[w].capabilities = hb.capabilities
              /\ clients'[w].gpu_info = hb.gpu_info
              /\ clients'[w].ip_address =
                    IF hb.ip_address # None THEN hb.ip_address[1]
                    ELSE clients[w].ip_address
              /\ clients'[w].client_id = clients[w].client_id
              /\ clients'[w].port = clients[w].port
              /\ \A id \in DOMAIN clients \ {w} : clients'[id] = clients[id] ]_vars

\* a heartbeat without endpoint was accepted for a record that keeps the
\* endpoint it registered with, had another GPU figure before, and another
\* record carries a speculative model
C11_Witness ==
    /\ op.name = "update"
    /\ ret.result = "Ok"
    /\ op.body[1].ip_address = None
    /\ clients[op.arg].ip_address = IpOf(op.arg)
    /\ clients[op.arg].gpu_info = CpuInfo
    /\ clients[op.arg].status = "busy"
    /\ \E id \in DOMAIN clients \ {op.arg} :
          clients[id].loaded_models # clients[id].capabilities.models

(* C12: register(rec) never fails; afterwards the record stored under      *)
(* rec.id equals rec in every field, a prior record being replaced as a    *)
(* whole, and all other records are unchanged.                             *)
C12_RegisterReplaces ==
    [][ op'.name = "register" =>
          LET rec == op'.body[1]
          IN  /\ ret'.result = "Ok"
              /\ ret'.body.status = "success"
              /\ DOMAIN clients' = DOMAIN clients \cup {rec.client_id}
              /\ clients'[rec.client_id] = rec
              /\ \A id \in DOMAIN clients \ {rec.client_id} :
                    clients'[id] = clients[id] ]_vars

\* a registration replaced a record that carried a speculative model, while
\* the other worker's record has status error
C12_Witness ==
    /\ op.name = "register"
    /\ ret.replaced # None
    /\ Contains(ret.replaced[1].loaded_models, "covid_xray")
    /\ clients[op.arg] = op.body[1]
    /\ \E id \in DOMAIN clients \ {op.arg} : clients[id].status = "error"

(* C13: in every reachable registry state every record's loaded_models is  *)
(* a subset of that record's capabilities.models, also right after select  *)
(* has appended a model.                                                   *)
C13_LoadedWithinCapabilities ==
    \A id \in DOMAIN clients :
        \A i \in 1..Len(clients[id].loaded_models) :
            Contains(clients[id].capabilities.models,
                     clients[id].loaded_models[i])

(* C15: a POST /predict whose payload fails variant validation returns 400 *)
(* and find_best_client is never called for it: the registry, stale        *)
(* records and loaded_models included, is unchanged and nothing is         *)
(* forwarded.                                                              *)
C15_ValidationFirst ==
    [][ (op'.name = "predict" /\ InvalidPayload(op'.body[1])) =>
          /\ ret'.http = 400
          /\ reqs'[op'.arg].http = 400
          /\ clients' = clients
          /\ reqs'[op'.arg].pc = "done"
          /\ reqs'[op'.arg].selects = 0
          /\ reqs'[op'.arg].forwards = 0
          /\ reqs'[op'.arg].client = None ]_vars

C15_Witness ==
    /\ op.name = "predict"
    /\ op.body[1].prompt = Some("")
    /\ ret.http = 400
    /\ \E id \in DOMAIN clients : ~Live(clients[id], now)
    /\ \E id \in DOMAIN clients :
          clients[id].loaded_models # clients[id].capabilities.models

(* C16: when find_best_client returns None for a valid request, an empty   *)
(* registry included, the coordinator answers 503 with a message naming    *)
(* the requested model, forwards nothing and does not keep the request.    *)
C16_SelectionMiss ==
    [][ (/\ op'.name = "predict"
         /\ ~InvalidPayload(op'.body[1])
         /\ ret'.client = None) =>
          LET slot == reqs'[op'.arg]
          IN  /\ ret'.http = 503
              /\ slot.http = 503
              /\ \E i \in 1..Len(slot.message) :
                    slot.message[i] = ModelName(op'.body[1])
              /\ slot.pc = "done"
              /\ slot.forwards = 0
              /\ slot.client = None ]_vars

C16_Witness ==
    /\ op.name = "predict"
    /\ ret.http = 503
    /\ clients = <<>>
    /\ reqs[op.arg].message =
          <<"No available client found for model type ", "stable_diffusion">>

(* C17: when the forward to the selected worker fails and the worker's     *)
(* record is still in the registry, the record's status is error when the  *)
(* coordinator answers, and the answer is 500 carrying the upstream error  *)
(* message.                                                                *)
C17_FailureMarksError ==
    [][ (op'.name = "failure" /\ ForwardedTo(op'.arg) \in DOMAIN clients) =>
          LET slot == reqs'[op'.arg]
          IN  /\ ForwardedTo(op'.arg) \in DOMAIN clients'
              /\ clients'[ForwardedTo(op'.arg)].status = "error"
              /\ ret'.http = 500
              /\ slot.http = 500
              /\ slot.pc = "done"
              /\ \E i \in 1..Len(slot.message) :
                    slot.message[i] = op'.body[1].detail ]_vars

C17_Witness ==
    /\ op.name = "failure"
    /\ op.body[1].kind = "ServerError"
    /\ ret.result = "Ok"
    /\ reqs[op.arg].http = 500
    /\ clients[ForwardedTo(op.arg)].status = "error"
    /\ \E id \in DOMAIN clients : clients[id].status = "online"

(* C18: the failure write changes only the status field of the worker's    *)
(* record: last_heartbeat, loaded_models, capabilities, gpu_info and the   *)
(* endpoint are as they were immediately before the write.                 *)
C18_FailureWriteFrame ==
    [][ (op'.name = "failure" /\ ForwardedTo(op'.arg) \in DOMAIN clients) =>
          /\ ForwardedTo(op'.arg) \in DOMAIN clients'
          /\ clients'[ForwardedTo(op'.arg)] =
                [clients[ForwardedTo(op'.arg)] EXCEPT !.status = "error"] ]_vars

(* C19: after a prediction forwarded to a live worker W has failed, and    *)
(* while no heartbeat or registration of W is accepted, list_active        *)
(* includes W with status error, no select returns W, and when W is the    *)
(* only worker the next request gets 503.                                  *)
C19_FailureSteersAway ==
    [][ \A w \in failed :
          /\ (op'.name = "list" /\ w \in DOMAIN clients
                /\ Live(clients[w], now)) =>
                \E c \in ret'.list : c.client_id = w /\ c.status = "error"
          /\ (op'.name \in {"select", "predict"} /\ ret'.client # None) =>
                ret'.client[1].client_id # w
          /\ (op'.name = "predict" /\ ~InvalidPayload(op'.body[1])
                /\ DOMAIN clients = {w}) =>
                ret'.http = 503 ]_vars

(* C20: for each POST /predict the coordinator calls find_best_client at   *)
(* most once and posts to at most one worker at most once; after a failed  *)
(* forward the handler has returned.                                       *)
C20_NoRetry ==
    \A r \in RequestIds :
        /\ reqs[r].selects <= 1
        /\ reqs[r].forwards <= 1
        /\ reqs[r].forwards <= reqs[r].selects
        /\ reqs[r].upstream # None => reqs[r].pc = "done"

C20_Witness ==
    \E r \in RequestIds :
        /\ reqs[r].pc = "done"
        /\ reqs[r].http = 500
        /\ reqs[r].upstream # None
        /\ reqs[r].selects = 1
        /\ reqs[r].forwards = 1

(* C14: under any interleaving of concurrent register, update, select,     *)
(* scan and list_active calls each call takes effect atomically: when it   *)
(* returns, the map and its result are those of running the whole method   *)
(* on the map it found when it took the guard, so the outcome is that of   *)
(* the calls in the order they took the guard.                             *)
C14_RegistryAtomicity ==
    [][ \A t \in ThreadIds :
          (calls[t].pc = "returning" /\ calls'[t].pc = "idle") =>
              \E o \in Perform(calls[t].snapshot, calls[t], calls[t].at) :
                  /\ clients = o.clients
                  /\ calls[t].out = o.out ]_vars

C14_Witness ==
    \E t \in ThreadIds, u \in ThreadIds :
        /\ u # t
        /\ calls[t].pc = "returning"
        /\ calls[t].name = "select"
        /\ calls[t].out.client # None
        /\ calls[t].snapshot # clients
        /\ DOMAIN calls[t].snapshot # DOMAIN clients
        /\ calls[u].pc = "waiting"
        /\ calls[u].name = "register"

(* C21: a worker whose heartbeat was answered with a client-not-found    *)
(* body registers again before it sends its next heartbeat: no heartbeat   *)
(* is posted while the last reply the worker got is "client not found".    *)
C21_ReRegistersBeforeNextHeartbeat ==
    [][ op'.name = "hb_send" => agent.reply # "client not found" ]_vars

\* stop() was called after start() had set the flag and registered
StoppedWhileUp == agent.stopped /\ ~agent.running /\ agent.main = "awaiting"

(* C22: a graceful stop sets the running flag false; the heartbeat loop    *)
(* posts nothing once it has seen the flag and exits; and the process      *)
(* ends: the HTTP server terminates, start() returns and the exit code     *)
(* is 0.                                                                   *)
C22_GracefulStopTerminates ==
    /\ [][ op'.name = "stop" => ~agent'.running ]_vars
    /\ [][ agent.hb = "stopped" => op'.name # "hb_send" ]_vars
    /\ StoppedWhileUp ~> (agent.hb = "stopped" \/ ~Alive)
    /\ StoppedWhileUp ~> (agent.exit = Some(0))

(* C23: a failed heartbeat (transport error, timeout, rejection) is never  *)
(* fatal: the step that ends it leaves the process, the running flag and   *)
(* the server as they are and puts the loop to sleep, from where it comes  *)
(* to the next POST unless the flag was cleared or the process has ended;  *)
(* the loop leaves only on a check that finds the running flag false.      *)
C23_HeartbeatFailuresNotFatal ==
    /\ [][ (op'.name = "hb_send" /\ ret'.result = "Err") =>
              /\ agent'.hb = "sleep"
              /\ agent'.main = agent.main
              /\ agent'.exit = agent.exit
              /\ agent'.running = agent.running
              /\ agent'.server = agent.server ]_vars
    /\ [][ (agent.hb # "stopped" /\ agent'.hb = "stopped") =>
              (op'.name = "hb_check" /\ ~agent.running) ]_vars
    /\ (op.name = "hb_send" /\ ret.result = "Err") ~>
          (agent.hb = "send" \/ ~agent.running \/ ~Alive)

C23_Witness ==
    /\ op.name = "hb_send"
    /\ ret.result = "Err"
    /\ agent.reply = "timed out"
    /\ agent.hb = "sleep"
    /\ agent.running
    /\ Alive

\* a prediction that has stored "busy" and has not answered yet
InFlight(h) == preds[h].pc \in {"stage", "finish", "finishing"}

(* C24: a handler that keeps the model_manager or the status guard for as  *)
(* long as it likes does not starve the heartbeat: a heartbeat that has    *)
(* come to a lock attempt is posted, after the timeout when the guard      *)
(* stays taken.                                                            *)
C24_HeartbeatNotStarved ==
    (agent.hb \in {"models", "status"}) ~> (op.name = "hb_send")

C24_Witness ==
    /\ op.name = "hb_send"
    /\ ret.result = "Ok"
    /\ "model_manager" \in agent.hb_late
    /\ agent.mm_lock = Some("h1")
    /\ preds["h1"].stage = "run"

(* C25: a heartbeat whose lock attempt timed out carries the last-known    *)
(* values: loaded_models (and the capabilities made of them) as read at    *)
(* the latest successful model_manager acquisition, status as read at the  *)
(* latest successful status acquisition.                                   *)
C25_TimeoutUsesLastKnown ==
    [][ op'.name = "hb_send" =>
          LET update == op'.body[1]
          IN  /\ "model_manager" \in agent.hb_late =>
                    /\ update.loaded_models = agent.known_loaded
                    /\ update.capabilities.models = agent.known_loaded
              /\ "status" \in agent.hb_late =>
                    update.status = agent.known_status ]_vars

(* C26: the status is "online" again after every prediction, whatever its  *)
(* end: whenever the handler answers, the status it leaves is "online".    *)
C26_StatusOnlineAfterPrediction ==
    [][ op'.name = "respond" => agent'.status = "online" ]_vars

(* C27: while at least one prediction is being handled the status is       *)
(* "busy", also when several run at once, and a heartbeat that reads the   *)
(* status meanwhile reports "busy".                                        *)
C27_BusyWhileHandling ==
    /\ []((\E h \in HandlerIds : InFlight(h)) => agent.status = "busy")
    /\ [][ (op'.name = "hb_status" /\ \E h \in HandlerIds : InFlight(h)) =>
              agent'.hb_status = "busy" ]_vars

(* C28: a listener that cannot be bound ends the process with exit code 1  *)
(* and never with 0.                                                       *)
C28_BindFailureExitsNonZero ==
    (agent.server = "failed" /\ agent.exit # None) => agent.exit = Some(1)

(* C29: every PredictionResponse carries an error exactly when success is  *)
(* false, and answering, with a failure body too, leaves the agent         *)
(* running: process, running flag, server and heartbeat loop are as they   *)
(* were.                                                                   *)
C29_ErrorIffNotSuccess ==
    [][ op'.name = "respond" =>
          LET response == op'.body[1].response
          IN  /\ (response.error # None) <=> ~response.success
              /\ agent'.running = agent.running
              /\ agent'.main = agent.main
              /\ agent'.exit = agent.exit
              /\ agent'.server = agent.server
              /\ agent'.hb = agent.hb ]_vars

C29_Witness ==
    /\ op.name = "respond"
    /\ op.body[1].request.model_type = "StableDiffusion"
    /\ ~op.body[1].response.success
    /\ op.body[1].response.error = Some(<<"Failed to generate image: ", "e">>)
    /\ agent.running
    /\ agent.server = "listening"
    /\ Alive

(* C30: select is a function of the registry's contents, ties on (total   *)
(* memory, free memory) included: on one map, one time and one model name  *)
(* every outcome find_best_client can have returns the same worker.        *)
C30_DeterministicTieBreak ==
    [][ op'.name = "select" =>
          \A o1, o2 \in FindBestClient(clients, now, op'.arg) :
              o1.result = o2.result ]_vars

(* C31: in every reachable registry state each key of the map is the id   *)
(* its record stores (so an id has at most one record), and no step        *)
(* (register, update, select, scan, failure write) changes the id of a     *)
(* record that stays in the map.                                           *)
C31_KeyIsRecordId ==
    /\ [](\A id \in DOMAIN clients : clients[id].client_id = id)
    /\ [](\A a, b \in DOMAIN clients :
            clients[a].client_id = clients[b].client_id => a = b)
    /\ [][ \A id \in (DOMAIN clients) \cap (DOMAIN clients') :
              clients'[id].client_id = clients[id].client_id ]_vars

C31_Witness ==
    /\ op.name = "failure"
    /\ ret.result = "Ok"
    /\ \E r \in RequestIds :
          /\ reqs[r].pc = "done"
          /\ reqs[r].client # None
          /\ reqs[r].client[1].client_id \in DOMAIN clients
          /\ clients[reqs[r].client[1].client_id].client_id = reqs[r].client[1].client_id
          /\ clients[reqs[r].client[1].client_id].status = "error"
    /\ Cardinality(DOMAIN clients) = 2

(* C32: select(M) changes the registry only by dropping the records      *)
(* whose age is at least the liveness window and by appending M to the     *)
(* loaded_models of the worker it returns when M is not listed there;      *)
(* every other field of that record and every other live record, whatever  *)
(* its status, stays as it was and stays in the map.                       *)
C32_SelectFrame ==
    [][ op'.name = "select" =>
          /\ DOMAIN clients' = {id \in DOMAIN clients : Live(clients[id], now)}
          /\ \A id \in DOMAIN clients' :
                IF ret'.client # None /\ ret'.client[1].client_id = id
                THEN clients'[id] =
                        [clients[id] EXCEPT !.loaded_models =
                            IF Contains(@, op'.arg) THEN @ ELSE Append(@, op'.arg)]
                ELSE clients'[id] = clients[id] ]_vars

C32_Witness ==
    /\ op.name = "select"
    /\ ret.client # None
    /\ ~Contains(ret.client[1].capabilities.models, op.arg)
    /\ \E id \in DOMAIN clients :
          /\ id # ret.client[1].client_id
          /\ clients[id].status \in {"busy", "error"}
          /\ clients[id].gpu_info.total_memory > ret.client[1].gpu_info.total_memory

(* C33: the worker's /predict applies the coordinator's validation rules: *)
(* a request the coordinator rejects never reaches inference on the        *)
(* worker, and a request the coordinator accepts has the fields the        *)
(* worker's handler asks for.                                              *)
C33_WorkerValidatesAsCoordinator ==
    /\ \A h \in HandlerIds :
          (preds[h].pc = "stage" /\ preds[h].stage = "run") =>
              ~InvalidPayload(preds[h].request[1])
    /\ \A request \in WorkerRequests :
          ~InvalidPayload(request) => HasFields(request)

(* C34: the agent leaves INIT only through a successful registration: no  *)
(* heartbeat is posted and no listener is bound before start() has         *)
(* registered, a successful start leaves the worker's record in the        *)
(* registry, and a failed registration makes start() return the error      *)
(* with neither the heartbeat loop nor the server started, the registry    *)
(* untouched and the process ended with exit code 1.                       *)
C34_InitLeftByRegistration ==
    /\ [](agent.main = "new" => agent.hb = "none" /\ agent.server = "none")
    /\ [][ op'.name \in {"hb_check", "hb_send", "bind"} =>
              agent.main = "awaiting" ]_vars
    /\ [][ (op'.name = "start" /\ ret'.result = "Ok") =>
              /\ Self \in DOMAIN clients'
              /\ agent.main = "new" /\ agent'.main = "awaiting" ]_vars
    /\ [][ (op'.name = "start" /\ ret'.result = "Err") =>
              /\ clients' = clients
              /\ agent'.hb = "none"
              /\ agent'.server = "none"
              /\ agent'.exit = Some(1) ]_vars
    /\ [](agent.exit = Some(1) => [](agent.hb = "none" /\ agent.server = "none"))

C34_Witness ==
    /\ op.name = "start"
    /\ ret.result = "Err"
    /\ agent.main = "exited"
    /\ agent.exit = Some(1)
    /\ agent.hb = "none"
    /\ agent.server = "none"
    /\ Self \notin DOMAIN clients

C36_ErrorNotSticky ==
    /\ [][ ( /\ op'.name = "update" /\ ret'.result = "Ok"
             /\ op'.arg \in failed
             /\ clients[op'.arg].status = "error" ) =>
               /\ clients'[op'.arg].status = op'.body[1].status
               /\ op'.arg \notin failed' ]_vars
    /\ [][ ( /\ op.name = "update" /\ ret.result = "Ok"
             /\ op.body[1].status = "online"
             /\ op.body[1].gpu_info.total_memory > 0
             /\ op'.name = "select" /\ op'.arg = "covid_xray" ) =>
               ret'.client # None ]_vars

C36_Witness ==
    /\ op.name = "update"
    /\ ret.result = "Ok"
    /\ clients[op.arg].status = "online"
    /\ op.arg \notin failed
    /\ \E r \in RequestIds :
          /\ reqs[r].pc = "done"
          /\ reqs[r].http = 500
          /\ reqs[r].client # None
          /\ ForwardedTo(r) = op.arg
          /\ reqs[r].client[1].last_heartbeat = clients[op.arg].last_heartbeat

(* C37: update_client does not look at the age of the record: a record     *)
(* that is no longer live when the call takes the guard is updated like    *)
(* any other (the call returns Ok, the record stays in the map with the    *)
(* payload's fields) and is live again when the payload's last_heartbeat   *)
(* is fresh.                                                               *)
C37_UpdateRevivesStale ==
    [][ \A t \in ThreadIds :
          ( /\ calls[t].name = "update"
            /\ calls[t].pc = "locked" /\ calls'[t].pc = "returning"
            /\ calls[t].arg[1].client_id \in DOMAIN clients
            /\ ~Live(clients[calls[t].arg[1].client_id], calls[t].at) ) =>
              LET update == calls[t].arg[1]
                  id == update.client_id
              IN  /\ calls'[t].out.result = "Ok"
                  /\ DOMAIN clients' = DOMAIN clients
                  /\ clients'[id].last_heartbeat = update.last_heartbeat
                  /\ clients'[id].status = update.status
                  /\ clients'[id].loaded_models = update.loaded_models
                  /\ Live([last_heartbeat |-> update.last_heartbeat], calls[t].at)
                        => Live(clients'[id], calls[t].at) ]_vars

C37_Witness ==
    \E t \in ThreadIds :
        /\ calls[t].name = "update"
        /\ calls[t].pc = "returning"
        /\ calls[t].out.result = "Ok"
        /\ calls[t].arg[1].client_id \in DOMAIN calls[t].snapshot
        /\ ~Live(calls[t].snapshot[calls[t].arg[1].client_id], calls[t].at)
        /\ Live(clients[calls[t].arg[1].client_id], calls[t].at)

(* C38: when the record of the selected worker is gone by the time the    *)
(* coordinator writes back a failed forward, the failure write creates no  *)
(* record and leaves the registry as it is, and the request is answered    *)
(* 500.                                                                    *)
C38_FailureWriteOnMissing ==
    [][ (op'.name = "failure" /\ ForwardedTo(op'.arg) \notin DOMAIN clients) =>
          /\ clients' = clients
          /\ ret'.result = "ClientNotFound"
          /\ reqs'[op'.arg].pc = "done"
          /\ reqs'[op'.arg].http = 500 ]_vars

C38_Witness ==
    /\ op.name = "failure"
    /\ ret.result = "ClientNotFound"
    /\ ret.http = 500
    /\ reqs[op.arg].http = 500
    /\ ForwardedTo(op.arg) \notin DOMAIN clients
    /\ now - reqs[op.arg].client[1].last_heartbeat >= LivenessWindowMs

(* C39: a stop is never lost: once stop() has stored false in the running  *)
(* flag no later step stores true, also when stop() runs before start()    *)
(* has begun, and the heartbeat loop leaves at its next look at the flag. *)
C39_StopNeverLost ==
    /\ [][ agent.stopped => ~agent'.running ]_vars
    /\ [][ (agent.stopped /\ op'.name = "hb_check") => agent'.hb = "stopped" ]_vars

(* C40: a worker is visible to the coordinator only once it can serve:     *)
(* its registration is sent and its heartbeats are posted only after the   *)
(* /predict listener is bound.                                             *)
C40_VisibleOnlyWhenListening ==
    [][ (op'.name \in {"start", "hb_send"} /\ ret'.result = "Ok") =>
          agent.server = "listening" ]_vars

====
